---- MODULE Spec2Model ----
(***************************************************************************)
(* Model of first_challenge/Graph_ADT.py: class Graph, an adjacency-list   *)
(* graph (directed/undirected, weighted/unweighted) with its mutators,     *)
(* its queries and its searches (bfs, bfs_shortest_path, dfs,              *)
(* dfs_shortest_path, dijkstra).                                           *)
(*                                                                         *)
(* A Python dict is an insertion-ordered mapping: it is modelled by the    *)
(* function adjacentList (whose DOMAIN is the key set) together with the   *)
(* sequence keys (the keys in insertion order).  A neighbor entry          *)
(* (dest, weight) is the tuple <<dest, weight>>.  Every method call is one *)
(* action; what the call returned or raised is recorded in last, and the   *)
(* dict as it was when the call started in pre.                            *)
(*                                                                         *)
(* SpecGraph and SpecDijkstra start from the empty graph and interleave    *)
(* the mutators with the queries and with dijkstra.  SpecBfs, SpecPaths    *)
(* and SpecDfs start from every graph a bounded sequence of addVertex and  *)
(* addEdge calls builds and make one search on it.                         *)
(***************************************************************************)
EXTENDS Integers, Sequences, FiniteSets, TLC

VARIABLES directed, weighted, keys, adjacentList, last, pre

vars == <<directed, weighted, keys, adjacentList, last, pre>>

\* ---------------------------------------------------------------- bounds
\* Vertex identifiers offered to the calls are the integers 0..MaxVertex.
MaxVertex == 2
\* Weights offered to addEdge are the integers 0..MaxWeight (or no weight).
MaxWeight == 1
\* addEdge is not called again once MaxEntries neighbor entries are stored.
MaxEntries == 3
\* The searches that read no weight (bfs, bfs_shortest_path, dfs,
\* dfs_shortest_path) are run on the graphs that at most one addVertex call
\* followed by at most MaxCalls addEdge calls build, over the vertex
\* identifiers 0..MaxNode.
MaxNode == 3
MaxCalls == 3

Vertices == 0 .. MaxVertex
Weights == 0 .. MaxWeight
Nodes == 0 .. MaxNode

\* ------------------------------------------------------- Python's values
\* Python's None, as a stored weight, a predecessor or an omitted argument.
None == -1
\* float("inf"): larger than every sum of stored weights.
Inf == 1000000

\* bool(x) for x an integer or None: None and 0 are falsy.
Truthy(x) == x # None /\ x # 0

\* a + b on floats/ints where a may be float("inf").
Plus(a, b) == IF a = Inf THEN Inf ELSE a + b

Range(s) == {s[i] : i \in 1 .. Len(s)}

\* What a call did: it returned a value ("return"), returned None ("None"),
\* or raised ("KeyError", "ValueError", "TypeError").
Returned(v) == [kind |-> "return", ret |-> v]
ReturnedNone == [kind |-> "None", ret |-> <<>>]
Raised(e) == [kind |-> e, ret |-> <<>>]

\* ------------------------------------------------------------- __init__
Init ==
    /\ directed \in BOOLEAN
    /\ weighted \in BOOLEAN
    /\ keys = <<>>
    /\ adjacentList = <<>>
    /\ last = [op |-> "__init__", args |-> <<>>, kind |-> "None", ret |-> <<>>]
    /\ pre = [keys |-> <<>>, adjacentList |-> <<>>]

\* The dict as one value: its keys in insertion order and its mapping.
Dict == [keys |-> keys, adjacentList |-> adjacentList]

\* self.adjacentList[vertex] = [] for a new key.
SetEmpty(d, vertex) ==
    [keys |-> Append(d.keys, vertex),
     adjacentList |-> [x \in DOMAIN d.adjacentList \cup {vertex} |->
                          IF x = vertex THEN <<>> ELSE d.adjacentList[x]]]

\* addVertex(vertex) on dict d.
addVertex(d, vertex) ==
    IF vertex \notin DOMAIN d.adjacentList THEN SetEmpty(d, vertex) ELSE d

\* self.adjacentList[v].append(entry)
AppendEntry(d, v, entry) ==
    [d EXCEPT !.adjacentList[v] = Append(@, entry)]

\* (Lines 82-83 left out: the weight supplied is stored as it is.)
StoredWeightMutKeep(w, weight) == weight

\* The weight addEdge stores: the one supplied in a weighted graph, None
\* otherwise (lines 82-83).
StoredWeight(w, weight) == IF w THEN weight ELSE None

\* Whether addEdge raises ValueError (line 79).
MissingWeight(w, weight) == w /\ weight = None

\* (Lines 76-77 left out: dest is not made a key.)
EnsureMutSrcOnly(d, src, dest) ==
    IF src \notin DOMAIN d.adjacentList THEN addVertex(d, src) ELSE d

\* Lines 74-77 of addEdge: both end points become keys.
EnsureVertices(d, src, dest) ==
    LET d1 == IF src \notin DOMAIN d.adjacentList THEN addVertex(d, src) ELSE d
    IN  IF dest \notin DOMAIN d1.adjacentList THEN addVertex(d1, dest) ELSE d1

\* (Lines 87-88 left out: no entry for the way back.)
StoreMutOneWay(d, dir, src, dest, w) == AppendEntry(d, src, <<dest, w>>)

\* Lines 85-88 of addEdge: the entries appended.
StoreEntries(d, dir, src, dest, w) ==
    LET d1 == AppendEntry(d, src, <<dest, w>>)
    IN  IF ~dir THEN AppendEntry(d1, dest, <<src, w>>) ELSE d1

\* addEdge(src, dest, weight) on dict d: the dict afterwards and the outcome.
addEdge(d, dir, w, src, dest, weight) ==
    LET d2 == EnsureVertices(d, src, dest)
    IN  IF MissingWeight(w, weight)
        THEN [dict |-> d2, out |-> Raised("ValueError")]
        ELSE [dict |-> StoreEntries(d2, dir, src, dest, StoredWeight(w, weight)),
              out |-> ReturnedNone]

\* Number of neighbor entries stored.
RECURSIVE SumLen(_, _)
SumLen(adj, S) ==
    IF S = {} THEN 0
    ELSE LET v == CHOOSE x \in S : TRUE
         IN  Len(adj[v]) + SumLen(adj, S \ {v})

NumEntries == SumLen(adjacentList, DOMAIN adjacentList)

Call(op, args, out) ==
    last' = [op |-> op, args |-> args, kind |-> out.kind, ret |-> out.ret]

\* A call that only reads the graph.
Query(op, args, out) ==
    /\ Call(op, args, out)
    /\ pre' = Dict
    /\ UNCHANGED <<directed, weighted, keys, adjacentList>>

AddVertex ==
    \E v \in Vertices :
        LET d == addVertex(Dict, v)
        IN  /\ keys' = d.keys
            /\ adjacentList' = d.adjacentList
            /\ pre' = Dict
            /\ Call("addVertex", <<v>>, ReturnedNone)
            /\ UNCHANGED <<directed, weighted>>

AddEdge ==
    \E src \in Vertices, dest \in Vertices, weight \in Weights \cup {None} :
        LET r == addEdge(Dict, directed, weighted, src, dest, weight)
        IN  /\ NumEntries < MaxEntries
            /\ keys' = r.dict.keys
            /\ adjacentList' = r.dict.adjacentList
            /\ pre' = Dict
            /\ Call("addEdge", <<src, dest, weight>>, r.out)
            /\ UNCHANGED <<directed, weighted>>

\* ------------------------------------------------------------- queries
\* getVertices(): list(self.adjacentList.keys()).
getVertices(d) == Returned(d.keys)

\* getNeighbors(vertex): self.adjacentList[vertex], KeyError for no key.
getNeighbors(d, vertex) ==
    IF vertex \in DOMAIN d.adjacentList
    THEN Returned(d.adjacentList[vertex])
    ELSE Raised("KeyError")

\* The for loop of getWeight over the entries from position i on: the
\* weight of the first entry whose neighbor is dest; falling off the end of
\* the loop returns None.
RECURSIVE WeightScan(_, _, _)
WeightScan(entries, i, dest) ==
    IF i > Len(entries) THEN ReturnedNone
    ELSE IF entries[i][1] = dest
         THEN (IF entries[i][2] = None THEN ReturnedNone
               ELSE Returned(entries[i][2]))
         ELSE WeightScan(entries, i + 1, dest)

\* (The same loop from the last entry to the first.)
RECURSIVE WeightScanBack(_, _, _)
WeightScanBack(entries, i, dest) ==
    IF i < 1 THEN ReturnedNone
    ELSE IF entries[i][1] = dest
         THEN (IF entries[i][2] = None THEN ReturnedNone
               ELSE Returned(entries[i][2]))
         ELSE WeightScanBack(entries, i - 1, dest)

getWeightMutLast(d, src, dest) ==
    IF src \notin DOMAIN d.adjacentList THEN Raised("KeyError")
    ELSE WeightScanBack(d.adjacentList[src], Len(d.adjacentList[src]), dest)

\* getWeight(src, dest): self.adjacentList[src] raises KeyError for no key.
getWeight(d, src, dest) ==
    IF src \notin DOMAIN d.adjacentList THEN Raised("KeyError")
    ELSE WeightScan(d.adjacentList[src], 1, dest)

GetVertices == Query("getVertices", <<>>, getVertices(Dict))

GetNeighbors ==
    \E v \in Vertices : Query("getNeighbors", <<v>>, getNeighbors(Dict, v))

GetWeight ==
    \E src \in Vertices, dest \in Vertices :
        Query("getWeight", <<src, dest>>, getWeight(Dict, src, dest))

\* ----------------------------------------------------------------- bfs
\* for neighbor, weight in entries: queue.append(neighbor)
RECURSIVE AppendNeighbors(_, _, _)
AppendNeighbors(queue, entries, i) ==
    IF i > Len(entries) THEN queue
    ELSE AppendNeighbors(Append(queue, entries[i][1]), entries, i + 1)

\* The while loop of bfs from the state (visited, queue).
RECURSIVE BfsLoop(_, _, _)
BfsLoop(adj, visited, queue) ==
    IF queue = <<>> THEN Returned(visited)
    ELSE LET vertex == Head(queue)
             rest == Tail(queue)
         IN  IF vertex \notin Range(visited)
             THEN IF vertex \notin DOMAIN adj THEN Raised("KeyError")
                  ELSE BfsLoop(adj, Append(visited, vertex),
                               AppendNeighbors(rest, adj[vertex], 1))
             ELSE BfsLoop(adj, visited, rest)

\* The loop with the queue used as a stack (pop() for pop(0)).
RECURSIVE BfsLoopMutLifo(_, _, _)
BfsLoopMutLifo(adj, visited, queue) ==
    IF queue = <<>> THEN Returned(visited)
    ELSE LET vertex == queue[Len(queue)]
             rest == SubSeq(queue, 1, Len(queue) - 1)
         IN  IF vertex \notin Range(visited)
             THEN IF vertex \notin DOMAIN adj THEN Raised("KeyError")
                  ELSE BfsLoopMutLifo(adj, Append(visited, vertex),
                                      AppendNeighbors(rest, adj[vertex], 1))
             ELSE BfsLoopMutLifo(adj, visited, rest)

bfsMutLifo(d, start) == BfsLoopMutLifo(d.adjacentList, <<>>, <<start>>)

\* bfs(start)
bfs(d, start) == BfsLoop(d.adjacentList, <<>>, <<start>>)

Bfs == \E start \in Nodes : Query("bfs", <<start>>, bfs(Dict, start))

\* --------------------------------------------------- bfs_shortest_path
\* The for loop of bfs_shortest_path and of dfs_shortest_path over the
\* entries from position i on: every extension of path is appended to the
\* frontier, and the first one that ends at end is returned at once.
RECURSIVE ExtendPaths(_, _, _, _, _)
ExtendPaths(frontier, path, entries, i, end) ==
    IF i > Len(entries)
    THEN [found |-> FALSE, frontier |-> frontier, new_path |-> <<>>]
    ELSE LET new_path == Append(path, entries[i][1])
             grown == Append(frontier, new_path)
         IN  IF entries[i][1] = end
             THEN [found |-> TRUE, frontier |-> grown, new_path |-> new_path]
             ELSE ExtendPaths(grown, path, entries, i + 1, end)

\* The while loop of bfs_shortest_path from the state (visited, queue);
\* leaving the loop returns None.
RECURSIVE BfsPathLoop(_, _, _, _)
BfsPathLoop(adj, visited, queue, end) ==
    IF queue = <<>> THEN ReturnedNone
    ELSE LET path == Head(queue)
             rest == Tail(queue)
             vertex == path[Len(path)]
         IN  IF vertex \notin Range(visited)
             THEN IF vertex \notin DOMAIN adj THEN Raised("KeyError")
                  ELSE LET e == ExtendPaths(rest, path, adj[vertex], 1, end)
                       IN  IF e.found THEN Returned(e.new_path)
                           ELSE BfsPathLoop(adj, Append(visited, vertex),
                                            e.frontier, end)
             ELSE BfsPathLoop(adj, visited, rest, end)

\* bfs_shortest_path(start, end)
bfs_shortest_path(d, start, end) ==
    BfsPathLoop(d.adjacentList, <<>>, <<(<<start>>)>>, end)

BfsShortestPath ==
    \E start \in Nodes, end \in Nodes :
        Query("bfs_shortest_path", <<start, end>>,
              bfs_shortest_path(Dict, start, end))

\* --------------------------------------------------- dfs_shortest_path
\* The while loop of dfs_shortest_path from the state (visited, stack).
RECURSIVE DfsPathLoop(_, _, _, _)
DfsPathLoop(adj, visited, stack, end) ==
    IF stack = <<>> THEN ReturnedNone
    ELSE LET path == stack[Len(stack)]
             rest == SubSeq(stack, 1, Len(stack) - 1)
             vertex == path[Len(path)]
         IN  IF vertex \notin Range(visited)
             THEN IF vertex \notin DOMAIN adj THEN Raised("KeyError")
                  ELSE LET e == ExtendPaths(rest, path, adj[vertex], 1, end)
                       IN  IF e.found THEN Returned(e.new_path)
                           ELSE DfsPathLoop(adj, Append(visited, vertex),
                                            e.frontier, end)
             ELSE DfsPathLoop(adj, visited, rest, end)

\* dfs_shortest_path(start, end)
dfs_shortest_path(d, start, end) ==
    DfsPathLoop(d.adjacentList, <<>>, <<(<<start>>)>>, end)

DfsShortestPath ==
    \E start \in Nodes, end \in Nodes :
        Query("dfs_shortest_path", <<start, end>>,
              dfs_shortest_path(Dict, start, end))

\* ----------------------------------------------------------------- dfs
\* dict d with d[k] = v set.
Put(d, k, v) == [x \in DOMAIN d \cup {k} |-> IF x = k THEN v ELSE d[x]]

\* (Lines 199-200 left out: no neighbor is passed over.)
SkipsMutNever(neighbor, avoid) == FALSE

\* Whether the for loop of dfs passes over a neighbor (lines 199-200).
Skips(neighbor, avoid) == neighbor = avoid

\* The for loop of dfs over the entries of vertex from position i on.
RECURSIVE DfsExpand(_, _, _, _, _, _)
DfsExpand(path, stack, vertex, entries, i, avoid) ==
    IF i > Len(entries) THEN [path |-> path, stack |-> stack]
    ELSE LET neighbor == entries[i][1]
         IN  IF Skips(neighbor, avoid)
             THEN DfsExpand(path, stack, vertex, entries, i + 1, avoid)
             ELSE IF neighbor \notin DOMAIN path
                  THEN DfsExpand(Put(path, neighbor, vertex),
                                 Append(stack, neighbor),
                                 vertex, entries, i + 1, avoid)
                  ELSE DfsExpand(path, stack, vertex, entries, i + 1, avoid)

\* The while loop of dfs from the state (path, stack): the predecessor
\* dict when the loop is left, or the exception raised in it.
RECURSIVE DfsLoop(_, _, _, _, _)
DfsLoop(adj, path, stack, end, avoid) ==
    IF stack = <<>> THEN Returned(path)
    ELSE LET vertex == stack[Len(stack)]
             rest == SubSeq(stack, 1, Len(stack) - 1)
         IN  IF vertex = end THEN Returned(path)
             ELSE IF vertex \notin DOMAIN adj THEN Raised("KeyError")
                  ELSE LET e == DfsExpand(path, rest, vertex, adj[vertex], 1, avoid)
                       IN  DfsLoop(adj, e.path, e.stack, end, avoid)

\* The route-building loop of dfs (lines 211-213).
RECURSIVE RouteLoop(_, _, _, _)
RouteLoop(path, current, start, route) ==
    IF current = start THEN Returned(route)
    ELSE IF current \notin DOMAIN path THEN Raised("KeyError")
         ELSE RouteLoop(path, path[current], start, Append(route, path[current]))

\* list.reverse() and list[::-1]
Reverse(s) == [i \in 1 .. Len(s) |-> s[Len(s) + 1 - i]]

\* dfs(start, end, avoid)
dfs(d, start, end, avoid) ==
    LET walked == DfsLoop(d.adjacentList, (start :> None), <<start>>, end, avoid)
    IN  IF walked.kind # "return" THEN walked
        ELSE IF end \notin DOMAIN walked.ret THEN Returned(<<>>)
             ELSE LET r == RouteLoop(walked.ret, end, start, <<end>>)
                  IN  IF r.kind # "return" THEN r ELSE Returned(Reverse(r.ret))

Dfs ==
    \E start \in Nodes, end \in Nodes, avoid \in Nodes :
        Query("dfs", <<start, end, avoid>>, dfs(Dict, start, end, avoid))

\* ------------------------------------------------------------ dijkstra
\* The heap holds one [distance, vertex] list per vertex not yet popped and
\* is re-heapified after every change, so all that can be observed of it is
\* which vertices it holds, with which key: it is the function queue from
\* the vertices in the heap to their keys.

\* heapq.heappop(queue)[1]: the vertex of the least [key, vertex] list, lists
\* being compared lexicographically.
PopMin(queue) ==
    CHOOSE v \in DOMAIN queue :
        \A u \in DOMAIN queue :
            queue[v] < queue[u] \/ (queue[v] = queue[u] /\ v <= u)

\* The queue after the pop.
Without(queue, v) == [x \in DOMAIN queue \ {v} |-> queue[x]]

\* Lines 289-293: the key of neighbor's list, if the heap holds one.
DecreaseKey(queue, neighbor, alternative) ==
    IF neighbor \in DOMAIN queue
    THEN [queue EXCEPT ![neighbor] = alternative]
    ELSE queue

\* The for loop of dijkstra over the entries of current from position i on
\* (lines 284-293); distances[current] + None raises TypeError.
RECURSIVE Relax(_, _, _, _, _, _)
Relax(distances, previous, queue, current, entries, i) ==
    IF i > Len(entries)
    THEN [kind |-> "return", distances |-> distances,
          previous |-> previous, queue |-> queue]
    ELSE LET neighbor == entries[i][1]
             weight == entries[i][2]
             alternative == Plus(distances[current], weight)
         IN  IF weight = None
             THEN [kind |-> "TypeError", distances |-> distances,
                   previous |-> previous, queue |-> queue]
             ELSE IF alternative < distances[neighbor]
                  THEN Relax([distances EXCEPT ![neighbor] = alternative],
                             [previous EXCEPT ![neighbor] = current],
                             DecreaseKey(queue, neighbor, alternative),
                             current, entries, i + 1)
                  ELSE Relax(distances, previous, queue, current, entries, i + 1)

\* Lines 279-281: while previous[current]: path.append(current); ...
RECURSIVE WalkBack(_, _, _)
WalkBack(previous, current, path) ==
    IF Truthy(previous[current])
    THEN WalkBack(previous, previous[current], Append(path, current))
    ELSE path

\* The while loop of dijkstra from the state (distances, previous, queue):
\* the list path when the loop is left, or the exception raised in it.
RECURSIVE DijkstraLoop(_, _, _, _, _)
DijkstraLoop(adj, distances, previous, queue, end) ==
    IF DOMAIN queue = {} THEN Returned(<<>>)
    ELSE LET current == PopMin(queue)
             rest == Without(queue, current)
         IN  IF current = end THEN Returned(WalkBack(previous, current, <<>>))
             ELSE IF current \in DOMAIN adj
                  THEN LET r == Relax(distances, previous, rest, current,
                                      adj[current], 1)
                       IN  IF r.kind # "return" THEN Raised(r.kind)
                           ELSE DijkstraLoop(adj, r.distances, r.previous,
                                             r.queue, end)
                  ELSE DijkstraLoop(adj, distances, previous, rest, end)

\* dijkstra(start, end)
dijkstra(d, start, end) ==
    LET adj == d.adjacentList
        distances == [v \in DOMAIN adj |-> IF v = start THEN 0 ELSE Inf]
        previous == [v \in DOMAIN adj |-> None]
        walked == DijkstraLoop(adj, distances, previous, distances, end)
    IN  IF walked.kind # "return" THEN walked
        ELSE Returned(<<start>> \o Reverse(walked.ret))

Dijkstra ==
    \E start \in Vertices, end \in Vertices :
        Query("dijkstra", <<start, end>>, dijkstra(Dict, start, end))

NextGraph == AddVertex \/ AddEdge \/ GetVertices \/ GetNeighbors \/ GetWeight

NextDijkstra == AddVertex \/ AddEdge \/ Dijkstra

Next ==
    NextGraph \/ Bfs \/ BfsShortestPath \/ DfsShortestPath \/ Dfs \/ Dijkstra

\* Every method of the class, from the empty graph.
Spec == Init /\ [][Next]_vars

\* The mutators with the constant-time queries.
SpecGraph == Init /\ [][NextGraph]_vars

\* The mutators with dijkstra.
SpecDijkstra == Init /\ [][NextDijkstra]_vars

\* ---------------------------------------------------- the built graphs
\* The searches below are functions of the dict alone and never read a
\* weight.  They are run on every dict that a bounded sequence of calls
\* builds in an unweighted graph: addVertex(first) unless first is None,
\* then addEdge(calls[i][1], calls[i][2]) for each i.
RECURSIVE Replay(_, _, _, _)
Replay(d, dir, calls, i) ==
    IF i > Len(calls) THEN d
    ELSE Replay(addEdge(d, dir, FALSE, calls[i][1], calls[i][2], None).dict,
                dir, calls, i + 1)

EmptyDict == [keys |-> <<>>, adjacentList |-> <<>>]

InitBuilt ==
    \E dir \in BOOLEAN, first \in Nodes \cup {None}, n \in 0 .. MaxCalls :
        \E calls \in [1 .. n -> Nodes \X Nodes] :
            LET d0 == IF first = None THEN EmptyDict
                      ELSE addVertex(EmptyDict, first)
                d == Replay(d0, dir, calls, 1)
            IN  /\ directed = dir
                /\ weighted = FALSE
                /\ keys = d.keys
                /\ adjacentList = d.adjacentList
                /\ last = [op |-> "addEdge", args |-> <<>>,
                           kind |-> "None", ret |-> <<>>]
                /\ pre = d

\* A search leaves the dict as it is, so a second search from the state a
\* first one leads to finds what it would find from the built graph: each
\* behaviour makes one search.
NoSearchYet == last.op = "addEdge"

BfsBuilt == NoSearchYet /\ Bfs

BfsShortestPathBuilt == NoSearchYet /\ BfsShortestPath

DfsShortestPathBuilt == NoSearchYet /\ DfsShortestPath

DfsBuilt == NoSearchYet /\ Dfs

\* bfs on the built graphs.
SpecBfs == InitBuilt /\ [][BfsBuilt]_vars

\* bfs_shortest_path and dfs_shortest_path on the built graphs.
SpecPaths == InitBuilt /\ [][BfsShortestPathBuilt \/ DfsShortestPathBuilt]_vars

\* dfs on the built graphs.
SpecDfs == InitBuilt /\ [][DfsBuilt]_vars

\* ------------------------------------------- what the claims speak about
\* These are the graph-theoretic notions of the claims, defined on the
\* stored adjacency lists without any of the searches above.

\* The neighbor targets stored for u.
Succ(adj, u) ==
    IF u \in DOMAIN adj THEN {adj[u][i][1] : i \in 1 .. Len(adj[u])} ELSE {}

\* The vertices some path from a vertex of S reaches without entering banned.
RECURSIVE ReachFrom(_, _, _)
ReachFrom(adj, S, banned) ==
    LET N == S \cup (UNION {Succ(adj, u) : u \in S} \ banned)
    IN  IF N = S THEN S ELSE ReachFrom(adj, N, banned)

Reachable(adj, s) == ReachFrom(adj, {s}, {})

\* The least number of edges of a path from a vertex of S to v, plus k;
\* Inf when there is none.
RECURSIVE Hops(_, _, _, _)
Hops(adj, S, v, k) ==
    IF v \in S THEN k
    ELSE LET N == S \cup UNION {Succ(adj, u) : u \in S}
         IN  IF N = S THEN Inf ELSE Hops(adj, N, v, k + 1)

HopDist(adj, s, v) == Hops(adj, {s}, v, 0)

\* p follows stored edges.
IsWalk(adj, p) == \A i \in 1 .. Len(p) - 1 : p[i + 1] \in Succ(adj, p[i])

\* p is a path from start to end along stored edges.
IsPathFromTo(adj, p, start, end) ==
    /\ Len(p) >= 1
    /\ p[1] = start
    /\ p[Len(p)] = end
    /\ IsWalk(adj, p)

SetMin(S) == CHOOSE x \in S : \A y \in S : x <= y

\* The least weight stored for an edge from u to v.
EdgeCost(adj, u, v) ==
    SetMin({adj[u][i][2] : i \in {j \in 1 .. Len(adj[u]) : adj[u][j][1] = v}})

\* The summed edge weight of the walk p.
RECURSIVE WalkCost(_, _, _)
WalkCost(adj, p, i) ==
    IF i >= Len(p) THEN 0
    ELSE EdgeCost(adj, p[i], p[i + 1]) + WalkCost(adj, p, i + 1)

\* The least cost of a path from s to each vertex (Inf: none), by rounds of
\* relaxing every edge until nothing changes.
RECURSIVE Cheapest(_, _)
Cheapest(adj, dist) ==
    LET better(v) ==
            {dist[v]} \cup
            UNION {{Plus(dist[u], adj[u][i][2]) :
                       i \in {j \in 1 .. Len(adj[u]) : adj[u][j][1] = v}} :
                   u \in DOMAIN adj}
        next == [v \in DOMAIN adj |-> SetMin(better(v))]
    IN  IF next = dist THEN dist ELSE Cheapest(adj, next)

MinCost(adj, s, e) ==
    Cheapest(adj, [v \in DOMAIN adj |-> IF v = s THEN 0 ELSE Inf])[e]

Count(seq, e) == Cardinality({i \in 1 .. Len(seq) : seq[i] = e})

NoDuplicates(seq) == Cardinality(Range(seq)) = Len(seq)

\* The neighbor list of x when the last call started ([] for no key).
Old(x) == IF x \in DOMAIN pre.adjacentList THEN pre.adjacentList[x] ELSE <<>>

\* ------------------------------------------------- the claims: mutation
\* Every neighbor entry stored.
Entries ==
    UNION {{<<u, i>> : i \in 1 .. Len(adjacentList[u])} :
           u \in DOMAIN adjacentList}

\* C7: after any sequence of addVertex and addEdge calls, successful or
\* failing, every vertex stored as a neighbor target is a key of the
\* adjacency mapping, and the keys are what getVertices() returns.
C7_NeighborTargetsAreVertices ==
    /\ \A e \in Entries :
           adjacentList[e[1]][e[2]][1] \in Range(getVertices(Dict).ret)
    /\ Range(getVertices(Dict).ret) = DOMAIN adjacentList

\* C7 witness: an addEdge call has just made its destination a vertex and
\* stored it as a neighbor target.
C7_Witness ==
    /\ last.op = "addEdge"
    /\ last.kind = "None"
    /\ last.args[1] # last.args[2]
    /\ last.args[2] \notin DOMAIN pre.adjacentList
    /\ last.args[2] \in Succ(adjacentList, last.args[1])

\* The lists after a successful addEdge(u, v, _) that stored weight w.
AppendedDirected(u, v, w) ==
    \A x \in DOMAIN adjacentList :
        adjacentList[x] = IF x = u THEN Append(Old(x), <<v, w>>) ELSE Old(x)

AppendedUndirected(u, v, w) ==
    \A x \in DOMAIN adjacentList :
        adjacentList[x] =
            IF x = u /\ x = v THEN Old(x) \o << <<v, w>>, <<u, w>> >>
            ELSE IF x = u THEN Append(Old(x), <<v, w>>)
            ELSE IF x = v THEN Append(Old(x), <<u, w>>)
            ELSE Old(x)

\* C8: a successful addEdge(u, v, w) appends (v, w) to the end of u's list;
\* in an undirected graph it also appends (u, w) to the end of v's list, so
\* that (v, w) occurs in u's list as often as (u, w) in v's list for u # v;
\* in a directed graph only u's list gains an entry and every other list is
\* unchanged.  (w is the weight stored: None in an unweighted graph.)
C8_AddEdgeAppends ==
    /\ (last.op = "addEdge" /\ last.kind = "None") =>
           LET u == last.args[1]
               v == last.args[2]
               w == IF weighted THEN last.args[3] ELSE None
           IN  IF directed THEN AppendedDirected(u, v, w)
               ELSE AppendedUndirected(u, v, w)
    /\ ~directed =>
           \A u \in DOMAIN adjacentList, v \in DOMAIN adjacentList :
               \A w \in Weights \cup {None} :
                   u # v => Count(adjacentList[u], <<v, w>>)
                            = Count(adjacentList[v], <<u, w>>)

\* C8 witness: an undirected graph in which addEdge has just added a second
\* edge between two different vertices.
C8_Witness ==
    /\ ~directed
    /\ last.op = "addEdge"
    /\ last.kind = "None"
    /\ last.args[1] # last.args[2]
    /\ Len(adjacentList[last.args[2]]) >= 2

\* C9: in a weighted graph every stored entry carries a non-null weight, and
\* addEdge without a weight raises ValueError and stores no entry; in an
\* unweighted graph every stored weight is None whatever weight was
\* supplied, so getWeight returns None for every stored edge.
C9_WeightsMatchTheFlag ==
    /\ weighted => \A e \in Entries : adjacentList[e[1]][e[2]][2] # None
    /\ (weighted /\ last.op = "addEdge" /\ last.args[3] = None) =>
           /\ last.kind = "ValueError"
           /\ \A x \in DOMAIN adjacentList : adjacentList[x] = Old(x)
    /\ (weighted /\ last.op = "addEdge" /\ last.args[3] # None) =>
           last.kind = "None"
    /\ ~weighted =>
           /\ \A e \in Entries : adjacentList[e[1]][e[2]][2] = None
           /\ last.op = "addEdge" => last.kind = "None"
           /\ \A e \in Entries :
                  getWeight(Dict, e[1], adjacentList[e[1]][e[2]][1]).kind = "None"
           /\ (last.op = "getWeight" /\ last.args[1] \in DOMAIN adjacentList) =>
                  last.kind = "None"

\* C9 witness: addEdge was given a weight in an unweighted graph and stored
\* the entry.
C9_Witness ==
    /\ ~weighted
    /\ last.op = "addEdge"
    /\ last.args[3] # None
    /\ Len(adjacentList[last.args[1]]) > Len(Old(last.args[1]))

\* C10: an addEdge call that fails for a missing weight leaves the graph
\* as it was: the same vertices in the same order, the same neighbor lists.
C10_FailedAddEdgeChangesNothing ==
    (last.op = "addEdge" /\ last.kind = "ValueError") =>
        /\ getVertices(Dict).ret = pre.keys
        /\ adjacentList = pre.adjacentList

\* The first entry for dest in src's list.
FirstEntry(src, dest) ==
    adjacentList[src][SetMin({i \in 1 .. Len(adjacentList[src]) :
                                 adjacentList[src][i][1] = dest})]

\* What C4 says of a getWeight(src, dest) call on a known src: the weight of
\* the first-inserted entry for dest, None when there is no such entry.
GetWeightOnKnown(src, dest) ==
    IF dest \notin Succ(adjacentList, src) \/ FirstEntry(src, dest)[2] = None
    THEN last.kind = "None"
    ELSE last.kind = "return" /\ last.ret = FirstEntry(src, dest)[2]

\* C4 as stated: getWeight(src, dest) never raises; it returns the weight of
\* the first-inserted entry for dest in src's list, and None both when src
\* has no edge to dest and when src is not a known vertex.
C4_GetWeightNeverRaises ==
    last.op = "getWeight" =>
        IF last.args[1] \in DOMAIN adjacentList
        THEN GetWeightOnKnown(last.args[1], last.args[2])
        ELSE last.kind = "None"

\* C4 as amended: for a known src, getWeight(src, dest) returns the weight
\* of the first-inserted entry for dest in src's list, and None when src has
\* no edge to dest; for a src that is not a known vertex it raises KeyError.
C4_GetWeightFirstEntryOrKeyError ==
    last.op = "getWeight" =>
        IF last.args[1] \in DOMAIN adjacentList
        THEN GetWeightOnKnown(last.args[1], last.args[2])
        ELSE last.kind = "KeyError"

\* C4 witness: getWeight has answered for an edge stored twice with
\* different weights.
C4_Witness ==
    /\ last.op = "getWeight"
    /\ last.kind = "return"
    /\ \E i, j \in 1 .. Len(adjacentList[last.args[1]]) :
           /\ i < j
           /\ adjacentList[last.args[1]][i][1] = last.args[2]
           /\ adjacentList[last.args[1]][j][1] = last.args[2]
           /\ adjacentList[last.args[1]][i][2] # adjacentList[last.args[1]][j][2]

\* ------------------------------------------------- the claims: searches
\* C6: for every graph and every known vertex start, bfs(start) returns a
\* sequence that begins with start, holds every vertex reachable from start
\* exactly once and no other vertex, in non-decreasing order of edge
\* distance from start.
C6_BfsVisitsReachableByDistance ==
    (last.op = "bfs" /\ last.args[1] \in DOMAIN adjacentList) =>
        LET start == last.args[1]
            visited == last.ret
        IN  /\ last.kind = "return"
            /\ Len(visited) >= 1
            /\ visited[1] = start
            /\ Range(visited) = Reachable(adjacentList, start)
            /\ NoDuplicates(visited)
            /\ \A i, j \in 1 .. Len(visited) :
                   i < j => HopDist(adjacentList, start, visited[i])
                            <= HopDist(adjacentList, start, visited[j])

\* C6 witness: bfs has returned four vertices, the last two edges away, from
\* a start that lies on a cycle.
C6_Witness ==
    /\ last.op = "bfs"
    /\ last.kind = "return"
    /\ Len(last.ret) = 4
    /\ HopDist(adjacentList, last.args[1], last.ret[4]) = 2
    /\ last.args[1] \in UNION {Succ(adjacentList, v) :
                                  v \in Reachable(adjacentList, last.args[1])}

\* What C5 says dfs(start, end, avoid) returns.
DfsAvoids(start, end, avoid) ==
    /\ last.kind = "return"
    /\ \/ last.ret = <<>>
       \/ /\ IsPathFromTo(adjacentList, last.ret, start, end)
          /\ avoid \notin Range(last.ret)
    /\ last.ret = <<>> <=> end \notin ReachFrom(adjacentList, {start}, {avoid})

\* C5 as stated: for every graph and every avoid other than start and end,
\* dfs(start, end, avoid) returns the empty sequence or a sequence from
\* start to end along stored edges that does not contain avoid, and the
\* empty sequence exactly when every path from start to end passes through
\* avoid or there is none.
C5_DfsAvoidsOnEveryGraph ==
    (last.op = "dfs" /\ last.args[3] \notin {last.args[1], last.args[2]}) =>
        DfsAvoids(last.args[1], last.args[2], last.args[3])

\* C5 as amended: the same, for every known vertex start.
C5_DfsAvoidsFromKnownStart ==
    (/\ last.op = "dfs"
     /\ last.args[3] \notin {last.args[1], last.args[2]}
     /\ last.args[1] \in DOMAIN adjacentList) =>
        DfsAvoids(last.args[1], last.args[2], last.args[3])

\* C5 witness: dfs has returned a path although avoid is a neighbor of start
\* and end a neighbor of avoid.
C5_Witness ==
    /\ last.op = "dfs"
    /\ last.kind = "return"
    /\ last.args[3] \notin {last.args[1], last.args[2]}
    /\ Len(last.ret) >= 2
    /\ last.args[3] \in Succ(adjacentList, last.args[1])
    /\ last.args[2] \in Succ(adjacentList, last.args[3])

\* C2: for every graph and all known vertices start and end with end
\* reachable from start, bfs_shortest_path(start, end) returns a sequence
\* from start to end along stored edges with the least edge count of all
\* such paths, and no more edges than dfs_shortest_path(start, end) returns.
C2_BfsPathIsShortest ==
    (/\ last.op = "bfs_shortest_path"
     /\ last.args[1] \in DOMAIN adjacentList
     /\ last.args[2] \in DOMAIN adjacentList
     /\ last.args[2] \in Reachable(adjacentList, last.args[1])) =>
        LET start == last.args[1]
            end == last.args[2]
            other == dfs_shortest_path(Dict, start, end)
        IN  /\ last.kind = "return"
            /\ IsPathFromTo(adjacentList, last.ret, start, end)
            /\ Len(last.ret) - 1 = HopDist(adjacentList, start, end)
            /\ other.kind = "return" => Len(last.ret) <= Len(other.ret)

\* What holds of bfs_shortest_path: the statement of C2 for start # end.
BfsPathIsShortestBetweenDistinct ==
    (last.op = "bfs_shortest_path" /\ last.args[1] # last.args[2]) =>
        C2_BfsPathIsShortest

\* C1: in a weighted graph with non-negative weights, for known vertices
\* start and end with end reachable from start, dijkstra(start, end)
\* returns a sequence from start to end along stored edges whose summed
\* weight is at most the cost of every other path from start to end.
C1_DijkstraPathIsCheapest ==
    (/\ last.op = "dijkstra"
     /\ weighted
     /\ last.args[1] \in DOMAIN adjacentList
     /\ last.args[2] \in DOMAIN adjacentList
     /\ last.args[2] \in Reachable(adjacentList, last.args[1])) =>
        LET start == last.args[1]
            end == last.args[2]
        IN  /\ last.kind = "return"
            /\ IsPathFromTo(adjacentList, last.ret, start, end)
            /\ WalkCost(adjacentList, last.ret, 1)
                   <= MinCost(adjacentList, start, end)

\* What holds of dijkstra: the statement of C1 on the graphs none of whose
\* vertices is falsy (0).
DijkstraPathIsCheapestWithoutZero ==
    0 \notin DOMAIN adjacentList => C1_DijkstraPathIsCheapest

\* C3: when end is not reachable from start, dijkstra(start, end) returns an
\* empty or absent result: no non-empty sequence, no exception.
C3_DijkstraNoPathIsEmpty ==
    (/\ last.op = "dijkstra"
     /\ weighted
     /\ last.args[1] \in DOMAIN adjacentList
     /\ last.args[2] \in DOMAIN adjacentList
     /\ last.args[2] \notin Reachable(adjacentList, last.args[1])) =>
        \/ last.kind = "None"
        \/ last.kind = "return" /\ last.ret = <<>>
====
